---- MODULE Spec2Model ----
(***************************************************************************)
(* A model of the HET display components: the data table (two variants)    *)
(* and the rate bar chart.  One display instance is modelled: its props,   *)
(* its React state (data, loading, error), the fetches it has issued, and  *)
(* for the chart the content of the drawing container.                     *)
(*                                                                         *)
(* JavaScript values are tagged records, so that values of different      *)
(* types can be compared:  undefined, null, numbers (exact rationals n/d), *)
(* NaN and strings.  Non-ASCII text is written by its code points, e.g.    *)
(* the em-dash is "U+2014".                                                *)
(***************************************************************************)
EXTENDS Integers, Sequences, FiniteSets, TLC

VARIABLES
    kind,           \* which component the instance is: "table", "tableList", "chart"
    datasetUrl,     \* prop datasetUrl
    timeFilter,     \* prop timeFilter
    showAll,        \* prop showAllRow / showAllBar
    metricFields,   \* table prop metricFields (raw delimited text, or a list)
    columnHeaders,  \* table prop columnHeaders (raw delimited text, or a list)
    metricField,    \* chart prop metricField
    data,           \* useState data
    loading,        \* useState loading
    error,          \* useState error
    fetches,        \* every fetch issued so far, with its outcome once it completed
    container       \* chart: what the element behind containerRef holds

vars == <<kind, datasetUrl, timeFilter, showAll, metricFields, columnHeaders,
          metricField, data, loading, error, fetches, container>>

(***************************************************************************)
(* Bounds of the model.                                                    *)
(***************************************************************************)
MaxRows == 3
MaxFetches == 2

(***************************************************************************)
(* JavaScript values.                                                      *)
(***************************************************************************)
Undef == [t |-> "undefined"]
Null == [t |-> "null"]
NaN == [t |-> "NaN"]
Str(s) == [t |-> "string", s |-> s]
Arr(rows) == [t |-> "array", rows |-> rows]

Abs(i) == IF i < 0 THEN -i ELSE i

RECURSIVE Gcd(_, _)
Gcd(a, b) == IF b = 0 THEN a ELSE Gcd(b, a % b)

\* The number n/d, reduced, with a positive denominator.
Rat(n, d) ==
    LET s == IF d < 0 THEN -1 ELSE 1
        g == Gcd(Abs(n), Abs(d))
    IN [t |-> "number", n |-> (s * n) \div g, d |-> (s * d) \div g]

Num(i) == Rat(i, 1)

IsNum(v) == v.t = "number"

\* Number(s) for the strings the datasets hold: a numeric literal, blank text
\* (which converts to 0) or text that is not a number.
StringToNumber(s) ==
    CASE s = "150" -> Num(150)
      [] s = "2021" -> Num(2021)
      [] s = "2020" -> Num(2020)
      [] s = "1234" -> Num(1234)
      [] s = "" -> Num(0)
      [] s = " " -> Num(0)
      [] OTHER -> NaN

\* Number(v)
ToNumber(v) ==
    CASE v.t = "number" -> v
      [] v.t = "string" -> StringToNumber(v.s)
      [] v.t = "null" -> Num(0)
      [] OTHER -> NaN

\* !v is false
Truthy(v) ==
    CASE v.t = "number" -> v.n # 0
      [] v.t = "string" -> v.s # ""
      [] v.t \in {"array", "object"} -> TRUE
      [] OTHER -> FALSE

\* a || b
OrElse(a, b) == IF Truthy(a) THEN a ELSE b

\* a > 0 with a converted to a number; false for NaN
GreaterThanZero(a) == LET x == ToNumber(a) IN IsNum(x) /\ x.n > 0

\* (a / b) * 100 on numbers converted from a and b, b > 0
PercentOf(a, b) ==
    LET x == ToNumber(a)
        y == ToNumber(b)
    IN IF IsNum(x) /\ IsNum(y) THEN Rat(x.n * y.d * 100, x.d * y.n) ELSE NaN

(***************************************************************************)
(* Records (rows): functions from the field names they hold to values.     *)
(***************************************************************************)
Get(row, f) == IF f \in DOMAIN row THEN row[f] ELSE Undef

\* { ...row, [f]: v }
With(row, f, v) == [g \in DOMAIN row \cup {f} |-> IF g = f THEN v ELSE row[g]]

demographicField == "race_and_ethnicity"

(***************************************************************************)
(* String(v) and String.prototype.localeCompare.  A string is compared by  *)
(* its UTF-16 code units; the names the datasets hold are ASCII letters.   *)
(***************************************************************************)
CodeUnits(s) ==
    CASE s = "All" -> <<65, 108, 108>>
      [] s = "all" -> <<97, 108, 108>>
      [] s = "Black" -> <<66, 108, 97, 99, 107>>
      [] s = "black" -> <<98, 108, 97, 99, 107>>
      [] s = "White" -> <<87, 104, 105, 116, 101>>
      [] s = "undefined" -> <<117, 110, 100, 101, 102, 105, 110, 101, 100>>
      [] s = "null" -> <<110, 117, 108, 108>>
      [] OTHER -> <<>>

\* String(v) for the values a demographic field holds
ToStr(v) ==
    CASE v.t = "string" -> v.s
      [] v.t = "undefined" -> "undefined"
      [] v.t = "null" -> "null"
      [] v.t = "NaN" -> "NaN"
      [] OTHER -> ToString(v.n)

IsUpper(c) == c >= 65 /\ c <= 90

\* The primary collation weight of a letter: its position in the alphabet,
\* whatever its case.
Primary(c) == IF IsUpper(c) THEN c + 32 ELSE c

\* Lexicographic comparison of two sequences of integers: -1, 0 or 1.
RECURSIVE SeqCompare(_, _)
SeqCompare(a, b) ==
    IF a = <<>> /\ b = <<>> THEN 0
    ELSE IF a = <<>> THEN -1
    ELSE IF b = <<>> THEN 1
    ELSE IF Head(a) < Head(b) THEN -1
    ELSE IF Head(a) > Head(b) THEN 1
    ELSE SeqCompare(Tail(a), Tail(b))

\* Comparison by code units, as the operators < and > compare strings.
CodeUnitCompare(x, y) == SeqCompare(CodeUnits(x), CodeUnits(y))

\* x.localeCompare(y) in the default collation: the letters decide first,
\* case aside; between strings that differ in case only, the first
\* difference decides, lower case before upper case.
localeCompare(x, y) ==
    LET a == CodeUnits(x)
        b == CodeUnits(y)
        p == SeqCompare([i \in 1..Len(a) |-> Primary(a[i])],
                        [i \in 1..Len(b) |-> Primary(b[i])])
        t == SeqCompare([i \in 1..Len(a) |-> IF IsUpper(a[i]) THEN 1 ELSE 0],
                        [i \in 1..Len(b) |-> IF IsUpper(b[i]) THEN 1 ELSE 0])
    IN IF p # 0 THEN p ELSE t

\* A comparator that compares with < and >, by code units.
CompareRowsByCodeUnits(a, b) ==
    CodeUnitCompare(ToStr(Get(a, demographicField)), ToStr(Get(b, demographicField)))

\* The comparator of the sort of otherData.
CompareRows(a, b) ==
    localeCompare(ToStr(Get(a, demographicField)), ToStr(Get(b, demographicField)))

\* An insertion that puts x before the elements it compares equal to.
RECURSIVE InsertBeforeEqual(_, _)
InsertBeforeEqual(x, s) ==
    IF s = <<>> THEN <<x>>
    ELSE IF CompareRows(x, Head(s)) <= 0 THEN <<x>> \o s
    ELSE <<Head(s)>> \o InsertBeforeEqual(x, Tail(s))

\* Array.prototype.sort: a stable sort; x goes after every element that does
\* not compare greater than it.
RECURSIVE InsertSorted(_, _)
InsertSorted(x, s) ==
    IF s = <<>> THEN <<x>>
    ELSE IF CompareRows(x, Head(s)) < 0 THEN <<x>> \o s
    ELSE <<Head(s)>> \o InsertSorted(x, Tail(s))

RECURSIVE SortRows(_)
SortRows(s) ==
    IF s = <<>> THEN <<>>
    ELSE InsertSorted(s[Len(s)], SortRows(SubSeq(s, 1, Len(s) - 1)))

(***************************************************************************)
(* Field names.  The code reads a field's meaning off substrings of its    *)
(* name; NameParts lists, for each field name of the model, the substrings *)
(* the code looks for that the name contains.                              *)
(***************************************************************************)
NameParts(f) ==
    CASE f = "hiv_prevalence_per_100k" -> {"per_100k", "_per_100k", "prevalence"}
      [] f = "hiv_diagnoses_per_100k" -> {"per_100k", "_per_100k"}
      [] f = "hiv_deaths_per_100k" -> {"per_100k", "_per_100k"}
      [] f = "hiv_prevalence_pct_share" -> {"pct", "share", "_pct_share", "prevalence"}
      [] f = "hiv_deaths_pct_share" -> {"pct", "share", "_pct_share"}
      [] f = "population_pct" -> {"pct", "population"}
      [] f = "hiv_prevalence_count" -> {"count", "prevalence"}
      [] f = "population" -> {"population"}
      [] f = "hiv_share_per_100k" -> {"share", "per_100k", "_per_100k"}
      [] f = "hiv_count_per_100k" -> {"count", "per_100k", "_per_100k"}
      [] f = "total_cases" -> {"total"}
      [] OTHER -> {}

\* fieldName.includes(part)
Includes(f, part) == part \in NameParts(f)

\* Whether the array s includes x
SeqIncludes(s, x) == \E i \in 1..Len(s) : s[i] = x

(***************************************************************************)
(* The delimited-text props of the table: the text is a sequence of        *)
(* symbols, "," and " " being the delimiter and white space, any other     *)
(* symbol a run of other characters.                                       *)
(***************************************************************************)
\* text.split(',')
RECURSIVE SplitComma(_)
SplitComma(raw) ==
    IF raw = <<>> THEN << <<>> >>
    ELSE LET rest == SplitComma(Tail(raw))
         IN IF Head(raw) = "," THEN << <<>> >> \o rest
            ELSE << <<Head(raw)>> \o Head(rest) >> \o Tail(rest)

RECURSIVE TrimLeft(_)
TrimLeft(p) == IF p # <<>> /\ Head(p) = " " THEN TrimLeft(Tail(p)) ELSE p

RECURSIVE TrimRight(_)
TrimRight(p) ==
    IF p # <<>> /\ p[Len(p)] = " " THEN TrimRight(SubSeq(p, 1, Len(p) - 1)) ELSE p

RECURSIVE Join(_)
Join(p) == IF p = <<>> THEN "" ELSE Head(p) \o Join(Tail(p))

\* s.trim()
Trim(p) == Join(TrimRight(TrimLeft(p)))

\* text.split(',').map(s => s.trim()).filter(s => s)
SplitTrim(raw) ==
    LET pieces == SplitComma(raw)
        NonEmpty(x) == x # ""
    IN SelectSeq([i \in 1..Len(pieces) |-> Trim(pieces[i])], NonEmpty)

metricFieldsArray(k, mf) == IF k = "table" THEN SplitTrim(mf) ELSE mf

columnHeadersArray(k, ch) == IF k = "table" THEN SplitTrim(ch) ELSE ch

(***************************************************************************)
(* The table's shaping: filter by period, split off "All", derive the      *)
(* percentage shares, sort, combine.                                       *)
(***************************************************************************)
\* A comparison with ==, which converts a number and a string to numbers.
PeriodMatchesLoose(d, tf) ==
    LET v == Get(d, "time_period")
    IN IF v.t = "number" THEN v = StringToNumber(tf) ELSE v = Str(tf)

\* d.time_period === timeFilter
PeriodMatches(d, tf) == Get(d, "time_period") = Str(tf)

\* data.filter(d => d.time_period === timeFilter)
filteredData(rows, tf) ==
    LET Match(d) == PeriodMatches(d, tf)
    IN SelectSeq(rows, Match)

IsAll(d) == Get(d, demographicField) = Str("All")

\* filteredData.find(d => d[demographicField] === 'All')
allData(fd) ==
    LET found == SelectSeq(fd, IsAll)
    IN IF found = <<>> THEN Undef ELSE found[1]

\* filteredData.filter(d => d[demographicField] !== 'All')
otherData(fd) ==
    LET NotAll(d) == ~IsAll(d)
    IN SelectSeq(fd, NotAll)

\* metricFieldsArray.some(f => f.includes('_pct_share') || f === 'population_pct')
SharesRequested(mfa) ==
    \E i \in 1..Len(mfa) : Includes(mfa[i], "_pct_share") \/ mfa[i] = "population_pct"

\* allData?.hiv_prevalence_per_100k || 0
allPrevalence(fd) ==
    LET a == allData(fd)
    IN OrElse(IF a = Undef THEN Undef ELSE Get(a, "hiv_prevalence_per_100k"), Num(0))

\* The body of filteredData.map(row => ...): the new row.
newRow(row, mfa, allPrev) ==
    LET r1 == IF SeqIncludes(mfa, "hiv_prevalence_pct_share")
                 /\ ~Truthy(Get(row, "hiv_prevalence_pct_share"))
              THEN With(row, "hiv_prevalence_pct_share",
                        IF GreaterThanZero(allPrev)
                        THEN PercentOf(OrElse(Get(row, "hiv_prevalence_per_100k"), Num(0)),
                                       allPrev)
                        ELSE Num(0))
              ELSE row
    IN IF SeqIncludes(mfa, "population_pct") /\ ~Truthy(Get(row, "population_pct"))
       THEN With(r1, "population_pct", Null)
       ELSE r1

\* A map that writes the derived fields into the row it was given.
rowWrittenInPlace(row, mfa, allPrev) == newRow(row, mfa, allPrev)

\* What the body of the map leaves in the row it was given: the row is copied
\* ({ ...row }) and only the copy is written.
rowAfterMap(row, mfa, allPrev) == row

\* filteredData after the derivation block: mapped when a share is requested.
\* Only part_002 derives; part_003 has no such block.
augmented(k, fd, mfa) ==
    IF k = "table" /\ SharesRequested(mfa)
    THEN [i \in 1..Len(fd) |-> newRow(fd[i], mfa, allPrevalence(fd))]
    ELSE fd

\* The fetched rows after a render: those of the period have been through the
\* map when a share is requested.
rowsAfterRender(k, rows, tf, mfa) ==
    IF k = "table" /\ SharesRequested(mfa)
    THEN [i \in 1..Len(rows) |->
            IF PeriodMatches(rows[i], tf)
            THEN rowAfterMap(rows[i], mfa, allPrevalence(filteredData(rows, tf)))
            ELSE rows[i]]
    ELSE rows

\* otherData as sorted: taken from the mapped rows when a share is requested.
sortedOthers(k, fd, mfa) == SortRows(otherData(augmented(k, fd, mfa)))

\* The "All" row that goes into the table: allData, found before the
\* derivation block (allDataUpdated is computed and never used).
allRowShown(k, fd, mfa) == allData(fd)

\* showAllRow && allData ? [allData, ...otherData] : otherData
tableData(k, rows, tf, sa, mfa) ==
    LET fd == filteredData(rows, tf)
        a == allRowShown(k, fd, mfa)
    IN IF sa /\ a # Undef THEN <<a>> \o sortedOthers(k, fd, mfa)
       ELSE sortedOthers(k, fd, mfa)

(***************************************************************************)
(* The chart's shaping.                                                    *)
(***************************************************************************)
\* the filter of the render effect
chartFiltered(rows, tf, m) ==
    LET Keep(d) == /\ PeriodMatches(d, tf)
                   /\ Get(d, m) # Null
                   /\ Get(d, m) # Undef
                   /\ ToNumber(Get(d, m)) # NaN
    IN SelectSeq(rows, Keep)

\* showAllBar && allData ? [allData, ...otherData] : otherData
chartData(rows, tf, sa, m) ==
    LET fd == chartFiltered(rows, tf, m)
        a == allData(fd)
    IN IF sa /\ a # Undef THEN <<a>> \o SortRows(otherData(fd))
       ELSE SortRows(otherData(fd))

(***************************************************************************)
(* formatValue.  Texts are strings; the em-dash is written "U+2014".       *)
(***************************************************************************)
\* The placeholder literal of part_002: the em-dash.
EmDash == "U+2014"

\* The placeholder literal of part_003: three characters, not the em-dash.
PlaceholderList == "U+00E2 U+20AC U+201D"

\* Math.round(x): the nearest integer, halves upwards
MathRound(x) == (2 * x.n + x.d) \div (2 * x.d)

\* |x| rounded to a multiple of 1/scale, halves away from zero: the whole
\* part and the number of 1/scale left over.
RoundScaled(x, scale) ==
    LET whole == Abs(x.n) \div x.d
        rest == (2 * (Abs(x.n) % x.d) * scale + x.d) \div (2 * x.d)
    IN IF rest = scale THEN [whole |-> whole + 1, rest |-> 0]
       ELSE [whole |-> whole, rest |-> rest]

\* x.toFixed(1)
toFixed1(x) ==
    LET r == RoundScaled(x, 10)
    IN (IF x.n < 0 /\ (r.whole > 0 \/ r.rest > 0) THEN "-" ELSE "")
       \o ToString(r.whole) \o "." \o ToString(r.rest)

Pad3(i) ==
    IF i < 10 THEN "00" \o ToString(i)
    ELSE IF i < 100 THEN "0" \o ToString(i)
    ELSE ToString(i)

\* Thousands grouping of a natural number
RECURSIVE Grouped(_)
Grouped(i) ==
    IF i < 1000 THEN ToString(i)
    ELSE Grouped(i \div 1000) \o "," \o Pad3(i % 1000)

\* Up to three fraction digits, without trailing zeros
Fraction(th) ==
    IF th = 0 THEN ""
    ELSE IF th % 100 = 0 THEN "." \o ToString(th \div 100)
    ELSE IF th % 10 = 0 THEN "." \o (IF th < 100 THEN "0" ELSE "") \o ToString(th \div 10)
    ELSE "." \o Pad3(th)

\* x.toLocaleString() in the en-US locale
toLocaleString(x) ==
    LET r == RoundScaled(x, 1000)
    IN (IF x.n < 0 /\ (r.whole > 0 \/ r.rest > 0) THEN "-" ELSE "")
       \o Grouped(r.whole) \o Fraction(r.rest)

\* A formatter that looks for the rate suffix before the percentage names.
formatRateFirst(value, fieldName) ==
    LET numValue == ToNumber(value)
    IN IF numValue = NaN THEN ToStr(value)
       ELSE IF Includes(fieldName, "per_100k") THEN ToString(MathRound(numValue))
       ELSE IF Includes(fieldName, "pct") \/ Includes(fieldName, "share")
            THEN toFixed1(numValue) \o "%"
       ELSE toLocaleString(numValue)

\* The rules of formatValue below the placeholder line, common to both files.
formatNumberOrText(value, fieldName) ==
    LET numValue == ToNumber(value)
    IN IF numValue = NaN THEN ToStr(value)
       ELSE IF Includes(fieldName, "pct") \/ Includes(fieldName, "share")
            THEN toFixed1(numValue) \o "%"
       ELSE IF Includes(fieldName, "per_100k") THEN ToString(MathRound(numValue))
       ELSE IF Includes(fieldName, "count") \/ Includes(fieldName, "total")
            THEN toLocaleString(numValue)
       ELSE toLocaleString(numValue)

\* formatValue of part_002
formatValue(value, fieldName) ==
    IF value = Null \/ value = Undef THEN EmDash
    ELSE formatNumberOrText(value, fieldName)

\* formatValue of part_003
formatValueList(value, fieldName) ==
    IF value = Null \/ value = Undef THEN PlaceholderList
    ELSE formatNumberOrText(value, fieldName)

\* The formatter of the table of kind k
format(k, value, fieldName) ==
    IF k = "table" THEN formatValue(value, fieldName)
    ELSE formatValueList(value, fieldName)

(***************************************************************************)
(* getAdditionalInfo: the count and the population behind a rate.          *)
(***************************************************************************)
\* `${fieldName.replace('_per_100k', '')}_count`
countField(fieldName) ==
    CASE fieldName = "hiv_prevalence_per_100k" -> "hiv_prevalence_count"
      [] fieldName = "hiv_diagnoses_per_100k" -> "hiv_diagnoses_count"
      [] fieldName = "hiv_deaths_per_100k" -> "hiv_deaths_count"
      [] fieldName = "hiv_share_per_100k" -> "hiv_share_count"
      [] fieldName = "hiv_count_per_100k" -> "hiv_count_count"
      [] OTHER -> fieldName \o "_count"

popField == "population"

\* Number(v).toLocaleString()
NumberToLocaleString(v) ==
    LET x == ToNumber(v)
    IN IF x = NaN THEN "NaN" ELSE toLocaleString(x)

\* getAdditionalInfo, the same in part_002 and part_003
getAdditionalInfo(row, fieldName) ==
    IF ~Includes(fieldName, "per_100k") THEN ""
    ELSE LET count == Get(row, countField(fieldName))
             population == Get(row, popField)
         IN IF count # Undef /\ count # Null /\ population # Undef /\ population # Null
            THEN " ( " \o NumberToLocaleString(count) \o " Individuals living with HIV / "
                 \o NumberToLocaleString(population) \o " Total population )"
            ELSE ""

(***************************************************************************)
(* The inputs of the model: rows, datasets, response bodies, props.        *)
(***************************************************************************)
Row(tp, demo, prevalence) ==
    [time_period |-> tp, race_and_ethnicity |-> Str(demo),
     hiv_prevalence_per_100k |-> prevalence]

RowPool ==
    { With(Row(Str("2021"), "All", Num(100)), "hiv_deaths_per_100k", Num(10)),
      With(Row(Str("2021"), "Black", Num(150)), "hiv_deaths_per_100k", Num(20)),
      Row(Str("2021"), "White", Str("N/A")),
      Row(Str("2021"), "all", Num(30)),
      With(Row(Str("2021"), "black", Null), "hiv_prevalence_pct_share", Num(40)),
      Row(Str("2020"), "Black", Num(120)),
      Row(Num(2021), "White", Num(70)),
      Row(Str("2021"), "All", Num(0)) }

IsInjective(s) == \A i, j \in 1..Len(s) : i # j => s[i] # s[j]

\* The datasets: up to MaxRows different rows, in any order.
Datasets ==
    { s \in UNION { [1..n -> RowPool] : n \in 0..MaxRows } : IsInjective(s) }

\* The datasets the servers of the life-cycle specification answer with.
ServedDatasets ==
    { <<>>,
      << With(Row(Str("2021"), "All", Num(100)), "hiv_deaths_per_100k", Num(10)),
         With(Row(Str("2021"), "Black", Num(150)), "hiv_deaths_per_100k", Num(20)) >>,
      << Row(Str("2020"), "Black", Num(120)) >> }

\* The JSON bodies a response can hold: an array, an object with a data
\* property, an object without one, null, a number.
JsonBodies ==
    { Arr(d) : d \in ServedDatasets }
      \cup { [t |-> "object", data |-> Arr(d)] : d \in ServedDatasets }
      \cup { [t |-> "object", data |-> Str("N/A")], [t |-> "object"], Null, Num(5) }

\* The messages of the errors a fetch can end with: the network's, the one
\* thrown for a response that is not ok, the JSON parser's, an empty one.
ErrorMessages == {"Failed to fetch", "Failed to fetch data", "Unexpected token", ""}

Urls == {"url1", "url2", "url3"}

TimeFilters == {"2021", "2020"}

Kinds == {"table", "tableList", "chart"}

\* The defaults of the props
DefaultTimeFilter == "2021"
DefaultMetricField == "hiv_prevalence_per_100k"

DefaultMetricFields(k) ==
    CASE k = "table" ->
           <<"hiv_prevalence_per_100k", ",", "hiv_diagnoses_per_100k", ",",
             "hiv_deaths_per_100k">>
      [] k = "tableList" ->
           <<"hiv_prevalence_per_100k", "hiv_prevalence_pct_share", "population_pct">>
      [] OTHER -> <<>>

DefaultColumnHeaders(k) ==
    CASE k = "table" ->
           <<"HIV prevalence per 100k people", ",", "HIV diagnoses per 100k people", ",",
             "HIV deaths per 100k people">>
      [] k = "tableList" ->
           <<"HIV prevalence per 100k people", "Share of total HIV prevalence",
             "Population share (ages 13+)">>
      [] OTHER -> <<>>

\* The values the designer may give the props
MetricFieldsOptions(k) ==
    CASE k = "table" ->
           { DefaultMetricFields(k),
             <<"hiv_prevalence_per_100k", ",", " ", "hiv_prevalence_pct_share", ",",
               "population_pct">>,
             <<"hiv_deaths_per_100k", ",", "hiv_deaths_pct_share">> }
      [] k = "tableList" ->
           { DefaultMetricFields(k), <<"hiv_prevalence_per_100k">> }
      [] OTHER -> { <<>> }

ColumnHeadersOptions(k) ==
    CASE k = "table" ->
           { DefaultColumnHeaders(k), <<"Rate", ",", " ", "Share", ",">> }
      [] k = "tableList" ->
           { DefaultColumnHeaders(k), <<"Rate">> }
      [] OTHER -> { <<>> }

MetricFieldOptions(k) ==
    IF k = "chart" THEN {"hiv_prevalence_per_100k", "hiv_deaths_per_100k"}
    ELSE {DefaultMetricField}

\* The unit rendered after the value of a cell: "per 100k" under
\* field.includes('per_100k') && !additionalInfo && value !== null
unitSuffix(row, field) ==
    IF Includes(field, "per_100k") /\ getAdditionalInfo(row, field) = ""
       /\ Get(row, field) # Null
    THEN "per 100k"
    ELSE ""

(***************************************************************************)
(* What the instance shows.                                                *)
(***************************************************************************)
\* One row of the table body: the demographic cell and, per metric field, the
\* formatted value, the additional information under it and the unit after it.
TableRow(k, row, mfa) ==
    [row |-> row,
     cells |-> [i \in 1..Len(mfa) |-> format(k, Get(row, mfa[i]), mfa[i])],
     notes |-> [i \in 1..Len(mfa) |-> getAdditionalInfo(row, mfa[i])],
     units |-> [i \in 1..Len(mfa) |-> unitSuffix(row, mfa[i])]]

\* The return value of HETDataTable for the given state and props.
TableRender(k, d, l, e, tf, sa, mf, ch) ==
    IF l THEN [state |-> "loading"]
    ELSE IF Truthy(e) \/ ~Truthy(d) THEN [state |-> "error", message |-> e]
    ELSE IF d.t # "array" THEN [state |-> "exception"]
    ELSE IF filteredData(d.rows, tf) = <<>> THEN [state |-> "nodata"]
    ELSE LET mfa == metricFieldsArray(k, mf)
             td == tableData(k, d.rows, tf, sa, mfa)
         IN [state |-> "table",
             headers |-> columnHeadersArray(k, ch),
             rows |-> [i \in 1..Len(td) |-> TableRow(k, td[i], mfa)]]

\* The element behind containerRef: absent while the loading or the error
\* branch is rendered, else a div holding the bars drawn into it.
Detached == [mounted |-> FALSE, crashed |-> FALSE]
Drawn(bars) == [mounted |-> TRUE, crashed |-> FALSE, bars |-> bars]

\* The instance after an exception escaped its render or its effect: React
\* removes it from the page.
Crashed == [mounted |-> FALSE, crashed |-> TRUE]

\* The return value of HETRateBarChart
ChartRender(l, e, c) ==
    IF c.crashed THEN [state |-> "exception"]
    ELSE IF l THEN [state |-> "loading"]
    ELSE IF Truthy(e) THEN [state |-> "error", message |-> e]
    ELSE [state |-> "chart", bars |-> c.bars]

View ==
    IF kind = "chart" THEN ChartRender(loading, error, container)
    ELSE IF container.crashed THEN [state |-> "exception"]
    ELSE TableRender(kind, data, loading, error, timeFilter, showAll,
                     metricFields, columnHeaders)

\* The message the chart's render effect sets when no row is left
NoDataMessage(tf) == Str("No data available for " \o tf)

\* A commit of the chart with state (d, l, e): the container element is kept,
\* created empty or removed with the branch rendered, and the render effect
\* runs when one of its dependencies changed.  Gives the error and the
\* container after the effect.
ChartCommit(d, l, e, c, tf, sa, m, depsChanged) ==
    LET c1 == IF ~l /\ ~Truthy(e) THEN (IF c.mounted THEN c ELSE Drawn(<<>>))
              ELSE Detached
    IN IF c.crashed THEN [error |-> e, container |-> c]
       ELSE IF ~depsChanged \/ ~Truthy(d) \/ ~c1.mounted
            THEN [error |-> e, container |-> c1]
       ELSE IF d.t # "array" THEN [error |-> e, container |-> Crashed]
       ELSE IF Len(d.rows) = 0 THEN [error |-> e, container |-> c1]
       ELSE IF chartFiltered(d.rows, tf, m) = <<>>
            THEN [error |-> NoDataMessage(tf), container |-> Detached]
       ELSE [error |-> e, container |-> Drawn(chartData(d.rows, tf, sa, m))]

\* The same for any kind: a table has no effect that depends on the render;
\* its render throws when data is not an array.
Commit(k, d, l, e, c, tf, sa, m, depsChanged) ==
    IF k = "chart" THEN ChartCommit(d, l, e, c, tf, sa, m, depsChanged)
    ELSE IF c.crashed \/ (~l /\ ~Truthy(e) /\ Truthy(d) /\ d.t # "array")
         THEN [error |-> e, container |-> Crashed]
    ELSE [error |-> e, container |-> c]

\* What the table's render leaves in the state data: the rows it read.
dataAfterRender(k, d, l, e, tf, mf) ==
    IF k = "table" /\ ~l /\ ~Truthy(e) /\ Truthy(d) /\ d.t = "array"
       /\ filteredData(d.rows, tf) # <<>>
    THEN Arr(rowsAfterRender(k, d.rows, tf, metricFieldsArray(k, mf)))
    ELSE d

(***************************************************************************)
(* The instance as a state machine.                                        *)
(***************************************************************************)
Pending(url) == [url |-> url, status |-> "pending"]

\* The state after the commit that follows a change of state or props.
Settle(d, l, e, tf, sa, mf, m, depsChanged) ==
    LET r == Commit(kind, d, l, e, container, tf, sa, m, depsChanged)
    IN /\ loading' = l
       /\ error' = r.error
       /\ container' = r.container
       /\ data' = dataAfterRender(kind, d, l, r.error, tf, mf)

\* Mount with the default props: the loading branch is rendered, the fetch
\* effect has issued the fetch, the render effect returned for want of data.
Init ==
    /\ kind \in Kinds
    /\ datasetUrl = "url1"
    /\ timeFilter = DefaultTimeFilter
    /\ showAll = TRUE
    /\ metricFields = DefaultMetricFields(kind)
    /\ columnHeaders = DefaultColumnHeaders(kind)
    /\ metricField = DefaultMetricField
    /\ data = Null
    /\ loading = TRUE
    /\ error = Null
    /\ fetches = <<Pending(datasetUrl)>>
    /\ container = Detached

\* The dataset URL changes: the fetch effect runs again.
ChangeUrl(u) ==
    /\ u # datasetUrl
    /\ Len(fetches) < MaxFetches
    /\ datasetUrl' = u
    /\ fetches' = Append(fetches, Pending(u))
    /\ Settle(data, TRUE, Null, timeFilter, showAll, metricFields, metricField, FALSE)
    /\ UNCHANGED <<kind, timeFilter, showAll, metricFields, columnHeaders, metricField>>

\* jsonData.data || [] for a body that is not an array
dataArray(json) ==
    IF json.t = "array" THEN json ELSE OrElse(Get(json, "data"), Arr(<<>>))

\* The i-th fetch gets a response that is ok and whose body parses to json.
\* Reading jsonData.data of null throws, which the catch handles.  The two
\* state updates of a callback (setData, setLoading) are applied in one
\* render, as React batches them.
FetchResolves(i, json) ==
    /\ fetches[i].status = "pending"
    /\ fetches' = [fetches EXCEPT ![i] = [url |-> fetches[i].url, status |-> "resolved",
                                          json |-> json]]
    /\ IF json = Null
       THEN Settle(data, FALSE, Str("Cannot read properties of null"), timeFilter,
                   showAll, metricFields, metricField, FALSE)
       ELSE Settle(dataArray(json), FALSE, error, timeFilter, showAll, metricFields,
                   metricField, TRUE)
    /\ UNCHANGED <<kind, datasetUrl, timeFilter, showAll, metricFields, columnHeaders,
                   metricField>>

\* A catch that fetches again after a failure.
FetchRejectsAndRetries(i, msg) ==
    /\ fetches[i].status = "pending"
    /\ fetches' = Append([fetches EXCEPT ![i] = [url |-> fetches[i].url,
                                                  status |-> "rejected",
                                                  message |-> msg]],
                         Pending(datasetUrl))
    /\ Settle(data, FALSE, Str(msg), timeFilter, showAll, metricFields, metricField, FALSE)
    /\ UNCHANGED <<kind, datasetUrl, timeFilter, showAll, metricFields, columnHeaders,
                   metricField>>

\* The i-th fetch fails: the network, a response that is not ok, or a body
\* that is not JSON.
FetchRejects(i, msg) ==
    /\ fetches[i].status = "pending"
    /\ fetches' = [fetches EXCEPT ![i] = [url |-> fetches[i].url, status |-> "rejected",
                                          message |-> msg]]
    /\ Settle(data, FALSE, Str(msg), timeFilter, showAll, metricFields, metricField, FALSE)
    /\ UNCHANGED <<kind, datasetUrl, timeFilter, showAll, metricFields, columnHeaders,
                   metricField>>

SetTimeFilter(tf) ==
    /\ tf # timeFilter
    /\ timeFilter' = tf
    /\ Settle(data, loading, error, tf, showAll, metricFields, metricField, TRUE)
    /\ UNCHANGED <<kind, datasetUrl, showAll, metricFields, columnHeaders, metricField,
                   fetches>>

SetShowAll(b) ==
    /\ b # showAll
    /\ showAll' = b
    /\ Settle(data, loading, error, timeFilter, b, metricFields, metricField, TRUE)
    /\ UNCHANGED <<kind, datasetUrl, timeFilter, metricFields, columnHeaders, metricField,
                   fetches>>

SetMetricFields(mf) ==
    /\ mf # metricFields
    /\ metricFields' = mf
    /\ Settle(data, loading, error, timeFilter, showAll, mf, metricField, FALSE)
    /\ UNCHANGED <<kind, datasetUrl, timeFilter, showAll, columnHeaders, metricField,
                   fetches>>

SetColumnHeaders(ch) ==
    /\ ch # columnHeaders
    /\ columnHeaders' = ch
    /\ Settle(data, loading, error, timeFilter, showAll, metricFields, metricField, FALSE)
    /\ UNCHANGED <<kind, datasetUrl, timeFilter, showAll, metricFields, metricField,
                   fetches>>

SetMetricField(m) ==
    /\ m # metricField
    /\ metricField' = m
    /\ Settle(data, loading, error, timeFilter, showAll, metricFields, m, TRUE)
    /\ UNCHANGED <<kind, datasetUrl, timeFilter, showAll, metricFields, columnHeaders,
                   fetches>>

Next ==
    \/ \E u \in Urls : ChangeUrl(u)
    \/ \E i \in 1..Len(fetches), json \in JsonBodies : FetchResolves(i, json)
    \/ \E i \in 1..Len(fetches), msg \in ErrorMessages : FetchRejects(i, msg)
    \/ \E tf \in TimeFilters : SetTimeFilter(tf)

Spec == Init /\ [][Next]_vars

\* The bodies that are arrays of records
ArrayBodies == { Arr(d) : d \in ServedDatasets }

\* The same life cycle with every prop changing, the responses being arrays.
NextInputs ==
    \/ \E u \in Urls : ChangeUrl(u)
    \/ \E i \in 1..Len(fetches), json \in ArrayBodies : FetchResolves(i, json)
    \/ \E i \in 1..Len(fetches), msg \in ErrorMessages : FetchRejects(i, msg)
    \/ \E tf \in TimeFilters : SetTimeFilter(tf)
    \/ \E b \in BOOLEAN : SetShowAll(b)
    \/ \E mf \in MetricFieldsOptions(kind) : SetMetricFields(mf)
    \/ \E ch \in ColumnHeadersOptions(kind) : SetColumnHeaders(ch)
    \/ \E m \in MetricFieldOptions(kind) : SetMetricField(m)

SpecInputs == Init /\ [][NextInputs]_vars

\* Mount with any props the designer may give.
InitShape ==
    /\ kind \in Kinds
    /\ datasetUrl = "url1"
    /\ timeFilter \in TimeFilters
    /\ showAll \in BOOLEAN
    /\ metricFields \in MetricFieldsOptions(kind)
    /\ columnHeaders \in ColumnHeadersOptions(kind)
    /\ metricField \in MetricFieldOptions(kind)
    /\ data = Null
    /\ loading = TRUE
    /\ error = Null
    /\ fetches = <<Pending(datasetUrl)>>
    /\ container = Detached

\* The fetch brings any dataset, as a JSON array.
FetchBringsRows(rows) == FetchResolves(1, Arr(rows))

\* The dataset arrives, and the props change while it stays.
NextShape ==
    \/ \E rows \in Datasets : FetchBringsRows(rows)
    \/ \E tf \in TimeFilters : SetTimeFilter(tf)
    \/ \E b \in BOOLEAN : SetShowAll(b)
    \/ \E mf \in MetricFieldsOptions(kind) : SetMetricFields(mf)
    \/ \E ch \in ColumnHeadersOptions(kind) : SetColumnHeaders(ch)
    \/ \E m \in MetricFieldOptions(kind) : SetMetricField(m)

SpecShape == InitShape /\ [][NextShape]_vars

(***************************************************************************)
(* The table over one cell: a record of the period whose metric field,     *)
(* count and population are drawn from the values a dataset can hold, with *)
(* or without an "All" record before it and a second record of the same    *)
(* demographic value beside it.                                            *)
(***************************************************************************)
\* Field names the designer may put in metricFields
FormatFields ==
    {"hiv_prevalence_per_100k", "hiv_prevalence_pct_share", "population_pct",
     "hiv_prevalence_count", "hiv_share_per_100k", "hiv_count_per_100k",
     "total_cases", "cases"}

\* Values of a metric field: absent, null, numbers, numeric and other text
FormatValues ==
    {Undef, Null, Num(0), Num(1234), Num(1234567), Rat(49, 4), Str("1234"),
     Str("N/A"), Str(""), Str(" ")}

\* Values of the count and the population of a record
SiblingValues ==
    { <<Undef, Undef>>, <<Num(500), Num(50000)>>, <<Num(500), Undef>>,
      <<Null, Num(50000)>> }

\* A record of the period 2021 and the group "Black" with value v in field f
\* and the given count and population; the records differ in
\* hiv_deaths_per_100k.
CellRow(f, v, sib, deaths) ==
    LET r0 == [time_period |-> Str("2021"), race_and_ethnicity |-> Str("Black"),
               hiv_deaths_per_100k |-> Num(deaths)]
        r1 == IF f = "hiv_prevalence_per_100k" THEN r0
              ELSE With(r0, "hiv_prevalence_per_100k", Num(150))
        r2 == IF v = Undef THEN r1 ELSE With(r1, f, v)
        r3 == IF sib[1] = Undef THEN r2 ELSE With(r2, countField(f), sib[1])
    IN IF sib[2] = Undef THEN r3 ELSE With(r3, popField, sib[2])

\* The "All" record of the dataset: none, one with the prevalence, one without
AggregateRows ==
    { <<>>,
      << Row(Str("2021"), "All", Num(100)) >>,
      << [time_period |-> Str("2021"), race_and_ethnicity |-> Str("All")] >> }

\* Mount with one metric field; the chart draws its default metric.
InitFormat ==
    /\ kind \in Kinds
    /\ datasetUrl = "url1"
    /\ timeFilter = DefaultTimeFilter
    /\ showAll \in BOOLEAN
    /\ metricFields \in { <<f>> : f \in FormatFields }
    /\ columnHeaders = <<"Rate">>
    /\ metricField = DefaultMetricField
    /\ data = Null
    /\ loading = TRUE
    /\ error = Null
    /\ fetches = <<Pending(datasetUrl)>>
    /\ container = Detached

\* The fetch brings the "All" record agg (if any), a record with value v in
\* the metric field and, if twin, a second record of the same group, before
\* or after it.
FetchBringsCells(agg, v, sib, twin, twinFirst) ==
    LET f == metricFieldsArray(kind, metricFields)[1]
        cell == << CellRow(f, v, sib, 1) >>
        other == IF twin THEN << CellRow(f, Num(7), <<Undef, Undef>>, 2) >> ELSE <<>>
    IN FetchResolves(1, Arr(agg \o (IF twinFirst THEN other \o cell ELSE cell \o other)))

NextFormat ==
    \/ \E agg \in AggregateRows, v \in FormatValues, sib \in SiblingValues,
          twin \in BOOLEAN, twinFirst \in BOOLEAN :
          FetchBringsCells(agg, v, sib, twin, twinFirst)
    \/ \E b \in BOOLEAN : SetShowAll(b)

SpecFormat == InitFormat /\ [][NextFormat]_vars

(***************************************************************************)
(* Properties.                                                             *)
(***************************************************************************)
\* The rows the instance presents, in order: table rows or chart bars.
Presented ==
    LET v == View
    IN IF v.state = "table" THEN [i \in 1..Len(v.rows) |-> v.rows[i].row]
       ELSE IF v.state = "chart" THEN v.bars
       ELSE <<>>

ShowsRows == View.state \in {"table", "chart"}

Demo(row) == ToStr(Get(row, demographicField))

PresentedDemos == [i \in 1..Len(Presented) |-> Demo(Presented[i])]

\* The fields of a row that come from the source and that no step writes
SourceFields == {"time_period", "race_and_ethnicity", "hiv_prevalence_per_100k",
                 "hiv_deaths_per_100k"}

Source(row) == [f \in SourceFields |-> Get(row, f)]

\* The number of elements of the sequence s whose source fields are those of r
Count(s, r) == Cardinality({i \in 1..Len(s) : Source(s[i]) = Source(r)})

\* Whether two sequences of rows hold the same source rows, each as often
SameRows(s, u) ==
    /\ Len(s) = Len(u)
    /\ \A i \in 1..Len(s) : Count(s, s[i]) = Count(u, s[i])

\* The fetched rows of the requested period, and among them the Aggregate
\* Record and the others.
PeriodRows == IF Truthy(data) /\ data.t = "array" THEN filteredData(data.rows, timeFilter)
              ELSE <<>>

Aggregate == allData(PeriodRows)

NonAggregates == otherData(PeriodRows)

AllFetchesDone == \A i \in 1..Len(fetches) : fetches[i].status # "pending"

LastFetch == fetches[Len(fetches)]

\* C1: once the fetch for a superseded URL and the fetch for the latest URL
\* have both completed, data, error and loading are what the latest fetch
\* alone produces: its rows and no fetch error when it succeeded, its error
\* when it failed, loading false.
C1_StaleResponseDiscarded ==
    (Len(fetches) >= 2 /\ AllFetchesDone) =>
        /\ loading = FALSE
        /\ (LastFetch.status = "resolved" /\ LastFetch.json # Null) =>
              /\ data = dataArray(LastFetch.json)
              /\ error \in {Null, NoDataMessage(timeFilter)}
        /\ LastFetch.status = "rejected" => error = Str(LastFetch.message)

\* C2: the presented sequence is the Aggregate Record first, when the include
\* flag is set and the period has one, followed by every non-aggregate record
\* of the period exactly once; otherwise it is the non-aggregate records alone
\* and holds no "All" record.
C2_AggregateFirstThenAllOthers ==
    ShowsRows =>
        IF showAll /\ Aggregate # Undef
        THEN /\ Presented # <<>>
             /\ Source(Presented[1]) = Source(Aggregate)
             /\ SameRows(Tail(Presented), NonAggregates)
        ELSE /\ SameRows(Presented, NonAggregates)
             /\ \A i \in 1..Len(Presented) : ~IsAll(Presented[i])

\* The presented rows after the Aggregate Record
Remainder ==
    LET p == Presented
    IN IF p # <<>> /\ IsAll(p[1]) THEN Tail(p) ELSE p

\* The code units of a string with upper-case letters turned to lower case
Folded(x) == [i \in 1..Len(CodeUnits(x)) |-> Primary(CodeUnits(x)[i])]

\* C3: the non-aggregate remainder is in ascending order of the
\* case-normalized demographic value; a table of records "White", "all",
\* "Black" shows them in the order "all", "Black", "White".
C3_RemainderSortedCaseInsensitive ==
    LET r == Remainder
    IN /\ \A i, j \in 1..Len(r) :
             i < j => SeqCompare(Folded(Demo(r[i])), Folded(Demo(r[j]))) <= 0
       /\ (View.state = "table"
             /\ [i \in 1..Len(PeriodRows) |-> Demo(PeriodRows[i])]
                   = <<"White", "all", "Black">>)
          => PresentedDemos = <<"all", "Black", "White">>

C3_Witness ==
    /\ View.state = "table"
    /\ Len(data.rows) = 3
    /\ [i \in 1..Len(PeriodRows) |-> Demo(PeriodRows[i])] = <<"White", "all", "Black">>
    /\ PresentedDemos = <<"all", "Black", "White">>

\* C4: every presented record has its time-period field equal to the
\* requested period as a string; a record whose period is the number 2021 is
\* not presented for the period "2021".
C4_OnlyRequestedPeriod ==
    LET p == Presented
    IN \A i \in 1..Len(p) : Get(p[i], "time_period") = Str(timeFilter)

C4_Witness ==
    /\ ShowsRows
    /\ Presented # <<>>
    /\ timeFilter = "2021"
    /\ \E i \in 1..Len(data.rows) : Get(data.rows[i], "time_period") = Num(2021)
    /\ \E i \in 1..Len(data.rows) : Get(data.rows[i], "time_period") = Str("2020")

\* C5: when the fetch succeeded and no record matches the period, the
\* instance shows a "no data" state: not the error state, not an exception,
\* not an empty table or chart.
C5_NoDataStateDistinct ==
    (~loading /\ Truthy(data) /\ data.t = "array" /\ PeriodRows = <<>>
       /\ LastFetch.status = "resolved")
    => View.state \notin {"error", "exception", "table", "chart"}

\* C6: a table is never rendered with a number of headers that differs from
\* the number of cells of a row: unequal numbers of metric fields and labels
\* give a configuration-error state.
C6_MismatchIsConfigurationError ==
    View.state = "table" =>
        \A i \in 1..Len(View.rows) : Len(View.headers) = Len(View.rows[i].cells)

\* The base metric of a percentage-share field
BaseMetric(f) ==
    CASE f = "hiv_prevalence_pct_share" -> "hiv_prevalence_per_100k"
      [] f = "hiv_deaths_pct_share" -> "hiv_deaths_per_100k"
      [] OTHER -> "none"

\* The share the claim gives row r for field f
ClaimedShare(r, f) ==
    LET den == IF Aggregate = Undef THEN Undef ELSE Get(Aggregate, BaseMetric(f))
    IN IF Aggregate = Undef \/ ~IsNum(den) \/ den = Num(0) THEN Num(0)
       ELSE PercentOf(Get(r, BaseMetric(f)), den)

\* The records of the period after the derived-field step
AugmentedRows == augmented(kind, PeriodRows, metricFieldsArray(kind, metricFields))

\* C7: for every requested "*_pct_share" field that a record lacks, the
\* augmented record holds base metric / the Aggregate Record's base metric
\* x 100, or 0 when that denominator is zero or there is no Aggregate Record
\* (stated for records whose base metric is a number).
C7_ShareOfEveryRequestedField ==
    (kind = "table" /\ View.state = "table") =>
        LET mfa == metricFieldsArray(kind, metricFields)
        IN \A i \in 1..Len(mfa), j \in 1..Len(PeriodRows) :
              (/\ Includes(mfa[i], "_pct_share")
               /\ ~Truthy(Get(PeriodRows[j], mfa[i]))
               /\ IsNum(Get(PeriodRows[j], BaseMetric(mfa[i]))))
              => Get(AugmentedRows[j], mfa[i]) = ClaimedShare(PeriodRows[j], mfa[i])

\* C8: every row handed to the table, the "All" row included, is the
\* augmented record.
C8_PresentedRowsAreAugmented ==
    (kind = "table" /\ View.state = "table") =>
        \A i \in 1..Len(Presented) :
            \E j \in 1..Len(AugmentedRows) : Presented[i] = AugmentedRows[j]

\* C9: the derived-field step leaves the fetched records as they were
\* fetched, and applied to its own output it changes nothing.
C9_InputUntouchedAndIdempotent ==
    fetches[1].status = "resolved" =>
        /\ data = dataArray(fetches[1].json)
        /\ LET mfa == metricFieldsArray(kind, metricFields)
               a == AugmentedRows
           IN augmented(kind, a, mfa) = a

C9_Witness ==
    /\ kind = "table"
    /\ View.state = "table"
    /\ AugmentedRows # PeriodRows
    /\ \E j \in 1..Len(AugmentedRows) :
          /\ "hiv_prevalence_pct_share" \notin DOMAIN PeriodRows[j]
          /\ Get(AugmentedRows[j], "hiv_prevalence_pct_share") = Num(150)

\* C10: in both table variants the formatter gives the em-dash for null and
\* for undefined, and for 0 never the placeholder: "0.0%" for a percentage or
\* share field.
C10_PlaceholderForMissingNotForZero ==
    kind # "chart" =>
        LET mfa == metricFieldsArray(kind, metricFields)
        IN \A i \in 1..Len(mfa) :
              /\ format(kind, Null, mfa[i]) = EmDash
              /\ format(kind, Undef, mfa[i]) = EmDash
              /\ format(kind, Num(0), mfa[i]) # EmDash
              /\ (Includes(mfa[i], "pct") \/ Includes(mfa[i], "share"))
                    => format(kind, Num(0), mfa[i]) = "0.0%"

\* The cells of the table shown: the value the record holds in the field,
\* the text, the additional information and the unit rendered for it.
ShownCells ==
    LET v == View
        mfa == metricFieldsArray(kind, metricFields)
    IN IF v.state # "table" THEN {}
       ELSE { [row |-> v.rows[i].row, field |-> mfa[j],
               value |-> Get(v.rows[i].row, mfa[j]),
               text |-> v.rows[i].cells[j], note |-> v.rows[i].notes[j],
               unit |-> v.rows[i].units[j]] :
              i \in 1..Len(v.rows), j \in 1..Len(mfa) }

\* Text that is a numeric literal
NumericLiterals == {"150", "2021", "2020", "1234"}

\* A number, or the numeric string of one
IsNumeric(v) == IsNum(v) \/ (v.t = "string" /\ v.s \in NumericLiterals)

\* The rule the field name selects, in the order of the rule table
RuleOf(f) ==
    IF Includes(f, "pct") \/ Includes(f, "share") THEN "percent"
    ELSE IF Includes(f, "per_100k") THEN "rate"
    ELSE "grouped"

\* The multiples k/scale nearest to the number x >= 0
NearestScaled(x, scale) ==
    LET lo == (x.n * scale) \div x.d
    IN { k \in {lo, lo + 1} : 2 * Abs(x.n * scale - k * x.d) <= x.d }

\* x with exactly one decimal place and a trailing "%"
OneDecimalPercent(x) ==
    { ToString(k \div 10) \o "." \o ToString(k % 10) \o "%" : k \in NearestScaled(x, 10) }

\* x as a rounded integer without grouping
RoundedInteger(x) == { ToString(k) : k \in NearestScaled(x, 1) }

\* x as a rounded integer with thousands separators
GroupedInteger(x) == { Grouped(k) : k \in NearestScaled(x, 1) }

\* x with thousands separators, rounded to at most three fraction digits
GroupedNumber(x) ==
    { Grouped(k \div 1000) \o Fraction(k % 1000) : k \in NearestScaled(x, 1000) }

\* The examples of the rules, and a numeric string against its number
FormatExamples(c) ==
    /\ (c.value = Num(1234) /\ RuleOf(c.field) = "rate") => c.text = "1234"
    /\ (c.value = Num(1234567) /\ RuleOf(c.field) = "grouped") => c.text = "1,234,567"
    /\ c.value = Str("1234") => c.text = format(kind, Num(1234), c.field)

\* C11 as stated: the text of a numeric value follows from the field name
\* alone, by the first rule that applies of pct/share (one decimal place and
\* "%"), per_100k (rounded integer, no grouping), any other name (grouped
\* integer); a numeric string is formatted as its number.
C11_RulesByNameGroupedInteger ==
    \A c \in ShownCells :
        IsNumeric(c.value) =>
            LET x == ToNumber(c.value)
            IN /\ RuleOf(c.field) = "percent" => c.text \in OneDecimalPercent(x)
               /\ RuleOf(c.field) = "rate" => c.text \in RoundedInteger(x)
               /\ RuleOf(c.field) = "grouped" => c.text \in GroupedInteger(x)
               /\ FormatExamples(c)

\* C11 amended: the same, but a count/total or other field shows the number
\* with thousands separators and up to three fraction digits, which is an
\* integer for integer values only.
C11_RulesByNameGroupedNumber ==
    \A c \in ShownCells :
        IsNumeric(c.value) =>
            LET x == ToNumber(c.value)
            IN /\ RuleOf(c.field) = "percent" => c.text \in OneDecimalPercent(x)
               /\ RuleOf(c.field) = "rate" => c.text \in RoundedInteger(x)
               /\ RuleOf(c.field) = "grouped" => c.text \in GroupedNumber(x)
               /\ IsNum(x) /\ x.d = 1 /\ RuleOf(c.field) = "grouped"
                     => c.text \in GroupedInteger(x)
               /\ FormatExamples(c)

C11_Witness ==
    /\ \E c \in ShownCells :
          c.field = "hiv_prevalence_count" /\ c.value = Rat(49, 4) /\ c.text = "12.25"
    /\ \E c \in ShownCells :
          c.field = "hiv_prevalence_count" /\ c.value = Num(7) /\ c.text = "7"

\* C12: a string value that is not a number is shown as it is, whatever the
\* field name: no "%", no grouping, no other text; so are the empty string
\* and a string of white space.
C12_TextReturnedVerbatim ==
    \A c \in ShownCells :
        (c.value.t = "string" /\ c.value.s \notin NumericLiterals) => c.text = c.value.s

\* Whether the record holds a value in the field
Has(row, f) == Get(row, f) # Undef /\ Get(row, f) # Null

\* Whether the record holds the count and the population of the rate field f
HasCountAndPopulation(row, f) ==
    Includes(f, "per_100k") /\ Has(row, countField(f)) /\ Has(row, popField)

\* C13: the additional information of a cell is "(count / population)" with
\* grouped numbers, "(500 / 50,000)" for the count 500 and the population
\* 50000, exactly when the field is a rate field and the record holds its
\* count and its population; else it is empty.
C13_AnnotationIsCountOverPopulation ==
    \A c \in ShownCells :
        c.note = IF HasCountAndPopulation(c.row, c.field)
                 THEN "(" \o NumberToLocaleString(Get(c.row, countField(c.field)))
                      \o " / " \o NumberToLocaleString(Get(c.row, popField)) \o ")"
                 ELSE ""

\* Whether a response body is an array of records or an object whose data
\* property is one
HoldsRecords(json) ==
    \/ json.t = "array"
    \/ json.t = "object" /\ "data" \in DOMAIN json /\ json.data.t = "array"

\* The dataset a response body stands for
DatasetOf(json) ==
    IF json.t = "array" THEN json
    ELSE IF HoldsRecords(json) THEN json.data
    ELSE Arr(<<>>)

\* C14: after the only fetch succeeded, the dataset is the array of the body,
\* the data array of the body, or empty for a body of any other shape; a body
\* of another shape gives neither the error state nor an exception.
C14_OtherShapesAreEmptyDataset ==
    (Len(fetches) = 1 /\ fetches[1].status = "resolved") =>
        /\ data = DatasetOf(fetches[1].json)
        /\ ~HoldsRecords(fetches[1].json) => View.state \notin {"error", "exception"}

\* C15: after the only fetch failed, whatever its message, the instance is
\* not loading and shows the error state; no exception has escaped.
C15_FetchFailureShowsErrorState ==
    (Len(fetches) = 1 /\ fetches[1].status = "rejected") =>
        /\ loading = FALSE
        /\ ~container.crashed
        /\ View.state = "error"

\* What a step does to the fetches issued: one more, for the new URL, when
\* the dataset URL changes, and none otherwise.
FetchIssuedForUrlChangeOnly ==
    IF datasetUrl' # datasetUrl
    THEN /\ Len(fetches') = Len(fetches) + 1
         /\ fetches'[Len(fetches')] = Pending(datasetUrl')
         /\ \A i \in 1..Len(fetches) : fetches'[i].url = fetches[i].url
    ELSE /\ Len(fetches') = Len(fetches)
         /\ \A i \in 1..Len(fetches) : fetches'[i].url = fetches[i].url

\* C16: one fetch is issued on mount, one for every change of the dataset
\* URL, and none by any other step: not by a change of another prop, not by
\* the failure of a fetch.
C16_FetchOnMountAndUrlChangeOnly ==
    /\ fetches = <<Pending(datasetUrl)>>
    /\ [][FetchIssuedForUrlChangeOnly]_vars

C16_Witness ==
    /\ Len(fetches) = 2
    /\ datasetUrl = "url2"
    /\ fetches[1].status = "rejected"
    /\ fetches[2].status = "rejected"
    /\ timeFilter # DefaultTimeFilter
    /\ ~showAll
    /\ columnHeaders # DefaultColumnHeaders(kind)

\* The demographic values of a sequence of rows, in order
DemosOf(rows) == [i \in 1..Len(rows) |-> Demo(rows[i])]

\* C17: the demographic values of the bars a chart draws are, in order,
\* those of the rows a table shows for the same dataset, period and include
\* flag, whatever the records hold in the metric field.
C17_ChartBarsAreTableRows ==
    View.state = "chart" =>
        DemosOf(View.bars)
            = DemosOf(tableData("table", data.rows, timeFilter, showAll, <<metricField>>))

\* Whether the fetched record behind the shown row lacks the field
LacksAtSource(row, f) ==
    \E j \in 1..Len(PeriodRows) :
        Source(PeriodRows[j]) = Source(row) /\ ~Has(PeriodRows[j], f)

\* C18: when the period has an Aggregate Record that lacks the base metric,
\* a percentage-share field that a record does not bring is shown as the
\* em-dash, not as a number.
C18_AbsentDenominatorIsUnavailable ==
    (kind = "table" /\ Aggregate # Undef)
    => \A c \in ShownCells :
          (/\ Includes(c.field, "_pct_share")
           /\ ~Has(Aggregate, BaseMetric(c.field))
           /\ LacksAtSource(c.row, c.field))
          => c.text = EmDash

\* The place in the fetched dataset of the record behind a presented row
FetchedPosition(row) ==
    CHOOSE k \in 1..Len(data.rows) : Source(data.rows[k]) = Source(row)

FreshChartView(rows, tf, sa, m) ==
    LET r == ChartCommit(Arr(rows), FALSE, Null, Detached, tf, sa, m, TRUE)
    IN ChartRender(FALSE, r.error, r.container)

\* C20: once its fetch has succeeded, a chart shows what a chart mounted with
\* its current inputs shows, whatever the inputs were before; when records
\* match the current period, it shows their bars.
C20_ChartShowsCurrentInputs ==
    (kind = "chart" /\ fetches[1].status = "resolved") =>
        /\ View = FreshChartView(data.rows, timeFilter, showAll, metricField)
        /\ chartFiltered(data.rows, timeFilter, metricField) # <<>>
              => /\ View.state = "chart"
                 /\ View.bars = chartData(data.rows, timeFilter, showAll, metricField)

\* Whether a fetch issued for the current dataset URL has not completed yet
CurrentFetchInFlight ==
    \E i \in 1..Len(fetches) :
        fetches[i].status = "pending" /\ fetches[i].url = datasetUrl

\* C21: while a fetch for the current dataset URL is in flight the instance
\* is loading; the completion of another fetch does not end the loading.
C21_LoadingWhileCurrentFetchInFlight ==
    CurrentFetchInFlight => loading = TRUE

\* C22: in a cell of a per_100k field the unit "per 100k" is rendered only
\* when the cell has no additional information and the record holds a value
\* in the field: not next to the placeholder of a null or an absent value.
C22_UnitOnlyWithValueAndNoAnnotation ==
    \A c \in ShownCells :
        (Includes(c.field, "per_100k") /\ c.unit # "") =>
            /\ c.note = ""
            /\ Has(c.row, c.field)
            /\ c.text # EmDash

====
